---- MODULE Spec2Model ----
(***************************************************************************)
(* Model of astride/detect.py (class Streak): the detection pipeline       *)
(* detect(), the recursive chain aggregator __find_box, the two box passes *)
(* of plot_figures and the report writer write_outputs.                    *)
(*                                                                         *)
(* The EDGE class (astride/utils/edge.py) is imported by detect.py but is  *)
(* not part of the source tree at hand: quantify, filter_edges and         *)
(* connect_edges are modelled from the specification (sections 4.2-4.4).   *)
(*                                                                         *)
(* Python's None is the empty sequence and a set attribute is a sequence   *)
(* of length one, so that every variable keeps one type.                   *)
(***************************************************************************)
EXTENDS Integers, Sequences, FiniteSets, TLC

VARIABLES
    raw_image,      \* shape <<rows, cols>> of the FITS image       (l.27-31)
    image,          \* None, or the shape of the background-removed image
    contours,       \* None, or the list measure.find_contours returned
    edge,           \* None, or the working list of the local EDGE object
    log,            \* the stages detect() has completed, in order
    raw_edges,      \* self.raw_edges                               (l.38)
    streaks,        \* self.streaks                                 (l.41)
    pc,             \* where the caller of the Streak instance stands
    dpc,            \* next statement of __detect_streaks
    calls,          \* completed calls of plot_figures
    pass,           \* 0, or the box loop plot_figures is in (1: l.154, 2: l.180)
    n,              \* position of that loop in the list (1-based)
    cur,            \* argument n of the innermost __find_box call
    stack,          \* arguments n of the __find_box calls made by this invocation
    xs, ys,         \* the lists the invocation appends to
    box,            \* None, or the locals x_min, x_max, y_min, y_max
    visits,         \* the completed invocations of the current pass (their stacks)
    fig,            \* boxes pl.fill drew in the current figure
    all_png,        \* None, or the boxes in the saved all.png
    pngs,           \* index -> axis of the saved <index>.png
    streaks_txt,    \* None, or the lines of streaks.txt
    err             \* "None", or the exception that reached the caller

vars == <<raw_image, image, contours, edge, log, raw_edges, streaks, pc, dpc,
          calls, pass, n, cur, stack, xs, ys, box, visits, fig, all_png, pngs,
          streaks_txt, err>>

(* ------------------------------ bounds -------------------------------- *)
MaxEdges == 3
MaxCalls == 2
\* The interpreter's recursion limit, scaled to the model: always deeper
\* than the longest simple chain, so only a cyclic chain can reach it.
MaxDepth == MaxEdges + 2

(* ----------------------------- constants ------------------------------ *)
box_margin == 10
NoLink == -1

None == <<>>
Some(v) == <<v>>
Val(o) == o[1]

Range(s) == {s[k] : k \in DOMAIN s}
Min2(a, b) == IF a <= b THEN a ELSE b
Max2(a, b) == IF a >= b THEN a ELSE b
SetMin(S) == CHOOSE m \in S : \A v \in S : m <= v
SetMax(S) == CHOOSE m \in S : \A v \in S : m >= v
\* np.min / np.max over a list of [lo, hi] pairs
NpMin(ps) == SetMin(UNION {{ps[k][1], ps[k][2]} : k \in DOMAIN ps})
NpMax(ps) == SetMax(UNION {{ps[k][1], ps[k][2]} : k \in DOMAIN ps})

(* ------------------------------ inputs -------------------------------- *)
\* Image shapes <<rows, cols>>: a square and a non-square frame.
Shapes == {<<100, 100>>, <<100, 50>>}
\* Bounding boxes of two fragments of the line y = 2x + 3 (x is the column,
\* y the row, l.75); both lie inside every shape of Shapes.
BoxSet == {[x_min |-> 0, x_max |-> 20, y_min |-> 0, y_max |-> 43],
           [x_min |-> 25, x_max |-> 45, y_min |-> 53, y_max |-> 93]}
Kinds == {"streak", "blob"}
Contours == [bbox : BoxSet, kind : Kinds]
ContourLists == UNION {[1..k -> Contours] : k \in 0..MaxEdges}

(* --------------------- EDGE, from the specification ------------------- *)
\* Descriptors by shape (hundredths for the two ratios).
Descr(kind) ==
    IF kind = "streak"
    THEN [area |-> 40, perimeter |-> 95, shape_factor |-> 6,
          radius_deviation |-> 58, slope_angle |-> 63, intercept |-> 3]
    ELSE [area |-> 300, perimeter |-> 62, shape_factor |-> 92,
          radius_deviation |-> 4, slope_angle |-> 17, intercept |-> 8]
Thresholds == [shape_cut |-> 20, radius_dev_cut |-> 50, area_cut |-> 20]

\* 4.2: one Edge per contour, indices 0..N-1 in input order, no link.
QuantifyOne(c, i) ==
    [index |-> i,
     x_min |-> c.bbox.x_min, x_max |-> c.bbox.x_max,
     y_min |-> c.bbox.y_min, y_max |-> c.bbox.y_max,
     x_center |-> (c.bbox.x_min + c.bbox.x_max) \div 2,
     y_center |-> (c.bbox.y_min + c.bbox.y_max) \div 2,
     area |-> Descr(c.kind).area, perimeter |-> Descr(c.kind).perimeter,
     shape_factor |-> Descr(c.kind).shape_factor,
     radius_deviation |-> Descr(c.kind).radius_deviation,
     slope_angle |-> Descr(c.kind).slope_angle,
     intercept |-> Descr(c.kind).intercept,
     connectivity |-> NoLink, box_plotted |-> FALSE]
Quantify(cs) == [k \in DOMAIN cs |-> QuantifyOne(cs[k], k - 1)]

\* 4.3: the subsequence that meets every threshold, indices unchanged.
Keeps(e) ==
    /\ e.shape_factor <= Thresholds.shape_cut
    /\ e.radius_deviation >= Thresholds.radius_dev_cut
    /\ e.area >= Thresholds.area_cut
FilterEdges(es) == SelectSeq(es, Keeps)

Indices(es) == {es[k].index : k \in DOMAIN es}

\* 4.4: each Edge keeps the sentinel or links to one Edge of the working
\* list with a lower index.  Which partner is eligible and best depends on
\* scores the model does not compute: every choice is allowed.
LinkChoices(es) ==
    {f \in [DOMAIN es -> Indices(es) \cup {NoLink}] :
        \A k \in DOMAIN es : f[k] = NoLink \/ f[k] < es[k].index}
ApplyLinks(es, f) == [k \in DOMAIN es |-> [es[k] EXCEPT !.connectivity = f[k]]]

(* ------------------------------ detect -------------------------------- *)
\* Two slips in the order of the statements of __detect_streaks.
DetectStreaksLinkFirst ==
    <<"find_contours", "quantify", "get_raw_edges", "connect_edges",
      "filter_edges", "get_streaks">>
DetectStreaksRawLate ==
    <<"find_contours", "quantify", "filter_edges", "get_raw_edges",
      "connect_edges", "get_streaks">>
\* The statements of __detect_streaks in program order.
DetectStreaksOrder ==
    <<"find_contours", "quantify", "get_raw_edges", "filter_edges",
      "connect_edges", "get_streaks">>
Stmt == IF pc = "detect" /\ dpc \in DOMAIN DetectStreaksOrder
        THEN DetectStreaksOrder[dpc] ELSE "none"

plotVars == <<calls, pass, n, cur, stack, xs, ys, box, visits, fig, all_png, pngs>>

InitCommon ==
    /\ contours = None /\ edge = None /\ log = <<>>
    /\ raw_edges = None
    /\ dpc = 1 /\ calls = 0 /\ pass = 0 /\ n = 1
    /\ cur = NoLink /\ stack = <<>> /\ xs = <<>> /\ ys = <<>>
    /\ box = None /\ visits = <<>> /\ fig = <<>> /\ all_png = None
    /\ pngs = <<>> /\ streaks_txt = None /\ err = "None"

\* Streak.__init__
InitNew ==
    /\ raw_image \in Shapes
    /\ image = None
    /\ streaks = None
    /\ pc = "new"
    /\ InitCommon

\* An edge list handed to the reporting methods as it is: indices ascending
\* but not contiguous, any connectivity value (a cycle, a missing index).
SortedSeq(S) ==
    [k \in 1..Cardinality(S) |->
        CHOOSE i \in S : Cardinality({j \in S : j < i}) = k - 1]
LoadedEdge(i, c) ==
    [QuantifyOne([bbox |-> CHOOSE b \in BoxSet : (b.x_min = 0) <=> (i % 2 = 0),
                  kind |-> "streak"], i)
        EXCEPT !.connectivity = c]
LoadedLists ==
    UNION {{[k \in DOMAIN SortedSeq(S) |->
                LoadedEdge(SortedSeq(S)[k], f[SortedSeq(S)[k]])] :
            f \in [S -> (0..MaxEdges) \cup {NoLink}]} :
           S \in {U \in SUBSET (0..MaxEdges) : Cardinality(U) <= MaxEdges}}
InitLoaded ==
    /\ raw_image \in Shapes
    /\ image = Some(raw_image)
    /\ streaks \in {Some(l) : l \in LoadedLists}
    /\ pc = "idle"
    /\ InitCommon

Init == InitNew \/ InitLoaded

\* detect() up to the end of __remove_background
RemoveBackground ==
    /\ pc = "new"
    /\ image' = Some(raw_image)
    /\ log' = Append(log, "remove_background")
    /\ pc' = "detect" /\ dpc' = 1
    /\ UNCHANGED <<raw_image, contours, edge, raw_edges, streaks, plotVars,
                   streaks_txt, err>>

detectFrame == <<raw_image, image, pc, plotVars, streaks_txt, err>>

FindContours ==
    /\ Stmt = "find_contours"
    /\ \E cs \in ContourLists : contours' = Some(cs)
    /\ log' = Append(log, "find_contours")
    /\ dpc' = dpc + 1
    /\ UNCHANGED <<edge, raw_edges, streaks>>
    /\ UNCHANGED detectFrame

\* edge = EDGE(contours); edge.quantify()
QuantifyStep ==
    /\ Stmt = "quantify"
    /\ edge' = Some(Quantify(Val(contours)))
    /\ log' = Append(log, "quantify")
    /\ dpc' = dpc + 1
    /\ UNCHANGED <<contours, raw_edges, streaks>>
    /\ UNCHANGED detectFrame

GetRawEdges ==
    /\ Stmt = "get_raw_edges"
    /\ raw_edges' = edge
    /\ dpc' = dpc + 1
    /\ UNCHANGED <<contours, edge, log, streaks>>
    /\ UNCHANGED detectFrame

FilterStep ==
    /\ Stmt = "filter_edges"
    /\ edge' = Some(FilterEdges(Val(edge)))
    /\ log' = Append(log, "filter_edges")
    /\ dpc' = dpc + 1
    /\ UNCHANGED <<contours, raw_edges, streaks>>
    /\ UNCHANGED detectFrame

ConnectStep ==
    /\ Stmt = "connect_edges"
    /\ \E f \in LinkChoices(Val(edge)) : edge' = Some(ApplyLinks(Val(edge), f))
    /\ log' = Append(log, "connect_edges")
    /\ dpc' = dpc + 1
    /\ UNCHANGED <<contours, raw_edges, streaks>>
    /\ UNCHANGED detectFrame

GetStreaks ==
    /\ Stmt = "get_streaks"
    /\ streaks' = edge
    /\ dpc' = dpc + 1
    /\ UNCHANGED <<contours, edge, log, raw_edges>>
    /\ UNCHANGED detectFrame

\* detect() returns to the caller
DetectReturn ==
    /\ pc = "detect" /\ dpc > Len(DetectStreaksOrder)
    /\ pc' = "idle"
    /\ UNCHANGED <<raw_image, image, contours, edge, log, raw_edges, streaks,
                   dpc, plotVars, streaks_txt, err>>

(* ----------------------------- __find_box ------------------------------ *)
\* A slip: the edge is taken at list position n instead of by its index.
LookupByPosition(es, idx) == {k \in DOMAIN es : k = idx + 1}
\* [edge for edge in edges if edge['index'] == n]: the matching positions
Lookup(es, idx) == {k \in DOMAIN es : es[k].index = idx}

\* l.161-164; shape is <<rows, cols>>, Python's shape[0] is shape[1] here
ClampBox(px, py, shape) ==
    [x_min |-> Max2(NpMin(px) - box_margin, 0),
     x_max |-> Min2(NpMax(px) + box_margin, shape[1]),
     y_min |-> Max2(NpMin(py) - box_margin, 0),
     y_max |-> Min2(NpMax(py) + box_margin, shape[2])]

Edges == Val(streaks)
Hits == Lookup(Edges, cur)
Here == SetMin(Hits)
Marked(k) == [Edges EXCEPT ![k].box_plotted = TRUE]
Interval(lo, hi) == <<lo, hi>>

findFrame == <<raw_image, image, contours, edge, log, raw_edges, dpc, calls,
               pass, all_png, streaks_txt>>

\* A slip: a pointer to a missing index is taken for the end of the chain.
FindBoxSilentSkip ==
    /\ pc = "find_box"
    /\ Hits = {}
    /\ visits' = Append(visits, stack)
    /\ box' = Some(ClampBox(xs, ys, Val(image)))
    /\ streaks' = Some([Edges EXCEPT ![n].box_plotted = TRUE])
    /\ IF pass = 1
       THEN fig' = Append(fig, Val(box')) /\ pngs' = pngs
       ELSE fig' = fig /\ pngs' = (Edges[n].index :> Val(box')) @@ pngs
    /\ n' = n + 1
    /\ pc' = "loop"
    /\ UNCHANGED <<cur, stack, xs, ys, err>>
    /\ UNCHANGED findFrame

\* l.114 finds no edge with this index: [0] raises IndexError
FindBoxIndexError ==
    /\ pc = "find_box"
    /\ Hits = {}
    /\ err' = "IndexError"
    /\ pc' = "raised"
    /\ UNCHANGED <<streaks, n, cur, stack, xs, ys, box, visits, fig, pngs>>
    /\ UNCHANGED findFrame

\* l.114-121 with connectivity set: mark, append, recurse
FindBoxRecurse ==
    /\ pc = "find_box"
    /\ Hits # {}
    /\ Edges[Here].connectivity # NoLink
    /\ Len(stack) + 1 < MaxDepth
    /\ streaks' = Some(Marked(Here))
    /\ xs' = Append(xs, Interval(Edges[Here].x_min, Edges[Here].x_max))
    /\ ys' = Append(ys, Interval(Edges[Here].y_min, Edges[Here].y_max))
    /\ stack' = Append(stack, cur)
    /\ cur' = Edges[Here].connectivity
    /\ UNCHANGED <<pc, n, box, visits, fig, pngs, err>>
    /\ UNCHANGED findFrame

\* the same, when the recursive call exceeds the interpreter's limit
FindBoxDepth ==
    /\ pc = "find_box"
    /\ Hits # {}
    /\ Edges[Here].connectivity # NoLink
    /\ Len(stack) + 1 >= MaxDepth
    /\ streaks' = Some(Marked(Here))
    /\ xs' = Append(xs, Interval(Edges[Here].x_min, Edges[Here].x_max))
    /\ ys' = Append(ys, Interval(Edges[Here].y_min, Edges[Here].y_max))
    /\ stack' = Append(stack, cur)
    /\ err' = "RuntimeError"
    /\ pc' = "raised"
    /\ UNCHANGED <<n, cur, box, visits, fig, pngs>>
    /\ UNCHANGED findFrame

\* l.114-124 at the sentinel: mark, append, return through every frame;
\* then the rest of the loop body, l.161-168 (pass 1) or l.186-192 (pass 2)
FindBoxReturn ==
    /\ pc = "find_box"
    /\ Hits # {}
    /\ Edges[Here].connectivity = NoLink
    /\ xs' = Append(xs, Interval(Edges[Here].x_min, Edges[Here].x_max))
    /\ ys' = Append(ys, Interval(Edges[Here].y_min, Edges[Here].y_max))
    /\ stack' = Append(stack, cur)
    /\ visits' = Append(visits, stack')
    /\ box' = Some(ClampBox(xs', ys', Val(image)))
    /\ streaks' = Some([Marked(Here) EXCEPT ![n].box_plotted = TRUE])
    /\ IF pass = 1
       THEN fig' = Append(fig, Val(box')) /\ pngs' = pngs
       ELSE fig' = fig /\ pngs' = (Edges[n].index :> Val(box')) @@ pngs
    /\ n' = n + 1
    /\ pc' = "loop"
    /\ UNCHANGED <<cur, err>>
    /\ UNCHANGED findFrame

(* ---------------------------- plot_figures ----------------------------- *)
\* l.132-153: entered after detect(); the contours drawn at l.146-149 leave
\* no trace in the state
PlotFigures ==
    /\ pc = "idle"
    /\ calls < MaxCalls
    /\ pc' = "loop" /\ pass' = 1 /\ n' = 1
    /\ visits' = <<>>
    /\ UNCHANGED <<raw_image, image, contours, edge, log, raw_edges, streaks,
                   dpc, calls, cur, stack, xs, ys, box, fig, all_png, pngs,
                   streaks_txt, err>>

\* l.136 before detect(): self.image is None
EarlyPlotFigures ==
    /\ pc = "new"
    /\ err' = "AttributeError"
    /\ pc' = "raised"
    /\ UNCHANGED <<raw_image, image, contours, edge, log, raw_edges, streaks,
                   dpc, plotVars, streaks_txt>>

loopFrame == <<raw_image, image, contours, edge, log, raw_edges, dpc, calls,
               pass, box, visits, fig, all_png, pngs, streaks_txt, err>>

\* l.156 / l.181: the edge is already flagged
LoopSkip ==
    /\ pc = "loop"
    /\ n <= Len(Edges)
    /\ Edges[n].box_plotted
    /\ n' = n + 1
    /\ UNCHANGED <<streaks, pc, cur, stack, xs, ys>>
    /\ UNCHANGED loopFrame

\* l.156-160 / l.181-185: a new invocation of __find_box
LoopInvoke ==
    /\ pc = "loop"
    /\ n <= Len(Edges)
    /\ ~Edges[n].box_plotted
    /\ xs' = <<>> /\ ys' = <<>> /\ stack' = <<>>
    /\ cur' = Edges[n].index
    /\ pc' = "find_box"
    /\ UNCHANGED <<streaks, n>>
    /\ UNCHANGED loopFrame

\* l.170-178: save all.png, reset every flag, start the second loop
Pass1End ==
    /\ pc = "loop" /\ pass = 1
    /\ n > Len(Edges)
    /\ all_png' = Some(fig)
    /\ streaks' = Some([k \in DOMAIN Edges |-> [Edges[k] EXCEPT !.box_plotted = FALSE]])
    /\ pass' = 2 /\ n' = 1
    /\ visits' = <<>>
    /\ UNCHANGED <<raw_image, image, contours, edge, log, raw_edges, pc, dpc,
                   calls, cur, stack, xs, ys, box, fig, pngs, streaks_txt, err>>

\* l.194-195: clear the figure and return
Pass2End ==
    /\ pc = "loop" /\ pass = 2
    /\ n > Len(Edges)
    /\ fig' = <<>>
    /\ calls' = calls + 1
    /\ pass' = 0
    /\ pc' = "idle"
    /\ UNCHANGED <<raw_image, image, contours, edge, log, raw_edges, streaks,
                   dpc, n, cur, stack, xs, ys, box, visits, all_png, pngs,
                   streaks_txt, err>>

(* ---------------------------- write_outputs ---------------------------- *)
Header ==
    <<"#ID", "x_center", "y_center", "area", "perimeter", "shape_factor",
      "radius_deviation", "slope_angle", "intercept", "connectivity">>
\* A slip: the two centre columns change places.
LineCentersSwapped(e) ==
    <<e.index, e.y_center, e.x_center, e.area, e.perimeter, e.shape_factor,
      e.radius_deviation, e.slope_angle, e.intercept, e.connectivity>>
\* l.210-216: each conversion prints the value of its field
Line(e) ==
    <<e.index, e.x_center, e.y_center, e.area, e.perimeter, e.shape_factor,
      e.radius_deviation, e.slope_angle, e.intercept, e.connectivity>>
Lines(es) == [k \in DOMAIN es |-> Line(es[k])]

WriteOutputs ==
    /\ pc = "idle"
    /\ streaks_txt' = Some([header |-> Header, lines |-> Lines(Edges)])
    /\ UNCHANGED <<raw_image, image, contours, edge, log, raw_edges, streaks,
                   pc, dpc, plotVars, err>>

\* before detect(): the header is written, then enumerate(None) raises
EarlyWriteOutputs ==
    /\ pc = "new"
    /\ streaks_txt' = Some([header |-> Header, lines |-> <<>>])
    /\ err' = "TypeError"
    /\ pc' = "raised"
    /\ UNCHANGED <<raw_image, image, contours, edge, log, raw_edges, streaks,
                   dpc, plotVars>>

Next ==
    \/ RemoveBackground \/ FindContours \/ QuantifyStep \/ GetRawEdges
    \/ FilterStep \/ ConnectStep \/ GetStreaks \/ DetectReturn
    \/ PlotFigures \/ EarlyPlotFigures \/ LoopSkip \/ LoopInvoke
    \/ FindBoxIndexError \/ FindBoxRecurse \/ FindBoxDepth \/ FindBoxReturn
    \/ Pass1End \/ Pass2End \/ WriteOutputs \/ EarlyWriteOutputs

Spec == Init /\ [][Next]_vars
(* ------------------------- reference notions --------------------------- *)
StageOrder ==
    <<"remove_background", "find_contours", "quantify", "filter_edges",
      "connect_edges">>
\* the run went through detect() to the end
Detected == streaks # None /\ Len(log) = Len(StageOrder)
EdgeOf(es, idx) == CHOOSE e \in Range(es) : e.index = idx

\* following connectivity from idx reaches the sentinel within fuel steps
RECURSIVE Reaches(_, _, _)
Reaches(es, idx, fuel) ==
    IF idx = NoLink THEN TRUE
    ELSE IF fuel = 0 \/ idx \notin Indices(es) THEN FALSE
    ELSE Reaches(es, EdgeOf(es, idx).connectivity, fuel - 1)
\* following connectivity from idx meets an index that is not in the list
RECURSIVE Dangles(_, _, _)
Dangles(es, idx, fuel) ==
    IF idx = NoLink THEN FALSE
    ELSE IF idx \notin Indices(es) THEN TRUE
    ELSE IF fuel = 0 THEN FALSE
    ELSE Dangles(es, EdgeOf(es, idx).connectivity, fuel - 1)
\* the chain of a sound start, in order
RECURSIVE ChainFrom(_, _)
ChainFrom(es, idx) ==
    IF idx = NoLink THEN <<>>
    ELSE <<idx>> \o ChainFrom(es, EdgeOf(es, idx).connectivity)
\* every chain of the list ends at the sentinel
Sound(es) == \A k \in DOMAIN es : Reaches(es, es[k].index, Len(es))
\* an invocation of __find_box has returned to the loop
Returned == pc = "loop" /\ stack # <<>> /\ streaks # None

(* ------------------------------- claims -------------------------------- *)
\* C1: when __find_box(n, edges, [], []) has returned, the chain from n is
\* sound, xs and ys hold exactly one [min, max] interval per edge of the
\* chain from n, in chain order (edges taken by their index field), and the
\* min / max over xs and ys is the union bounding box of the chain.
C1_FindBoxUnionOfChain ==
    Returned =>
        /\ Reaches(Edges, stack[1], Len(Edges))
        /\ LET ch == ChainFrom(Edges, stack[1])
               E(i) == EdgeOf(Edges, i)
           IN /\ stack = ch
              /\ xs = [k \in DOMAIN ch |-> <<E(ch[k]).x_min, E(ch[k]).x_max>>]
              /\ ys = [k \in DOMAIN ch |-> <<E(ch[k]).y_min, E(ch[k]).y_max>>]
              /\ NpMin(xs) = SetMin({E(i).x_min : i \in Range(ch)})
              /\ NpMax(xs) = SetMax({E(i).x_max : i \in Range(ch)})
              /\ NpMin(ys) = SetMin({E(i).y_min : i \in Range(ch)})
              /\ NpMax(ys) = SetMax({E(i).y_max : i \in Range(ch)})
\* a returned invocation over a 3-edge chain of a list with a gap in its
\* indices, whose union box is wider than the box of its start
C1_Witness ==
    /\ Returned
    /\ Len(stack) = 3
    /\ Indices(Edges) # 0..(Len(Edges) - 1)
    /\ NpMax(xs) > xs[1][2]

\* C2: one invocation of __find_box never visits an edge twice, whatever
\* the connectivity (a cycle is reported before an edge is revisited).
C2_NoEdgeRevisited ==
    \A i, j \in DOMAIN stack : i # j => stack[i] # stack[j]

\* C3: in the list detect() stores in self.streaks every pointer is the
\* sentinel or the index of an edge of the list, and following
\* connectivity from any edge reaches the sentinel within N steps.
C3_LinkedListIsForest ==
    Detected =>
        \A k \in DOMAIN Edges :
            /\ Edges[k].connectivity \in Indices(Edges) \cup {NoLink}
            /\ Reaches(Edges, Edges[k].index, Len(Edges))
\* detect() stored a list that holds a chain of three edges
C3_Witness ==
    /\ Detected
    /\ \E k \in DOMAIN Edges :
          /\ Edges[k].connectivity # NoLink
          /\ EdgeOf(Edges, Edges[k].connectivity).connectivity # NoLink

\* C4: within one pass of plot_figures over a list whose connectivity is
\* acyclic and points at edges of the list, no edge is traversed by two
\* invocations of __find_box (one invocation and one box per streak),
\* wherever the members of a chain stand in the list.
C4_OneInvocationPerChain ==
    (streaks # None /\ Sound(Edges)) =>
        \A i, j \in DOMAIN visits :
            i # j => Range(visits[i]) \cap Range(visits[j]) = {}

\* C5: once detect() has stored self.streaks, no step changes any field of
\* any of its edges.
C5_EdgesFrozenAfterLink ==
    [][Detected => streaks' = streaks]_vars

\* C6: an invocation of __find_box whose chain meets a pointer to a missing
\* index ends with IndexError at the caller of plot_figures; no box or
\* figure is ever produced for such a chain, and only edges of the list are
\* visited.
C6_DanglingFailsLoudly ==
    streaks # None =>
        /\ (stack # <<>> /\ pc # "find_box"
                /\ Dangles(Edges, stack[1], Len(Edges)))
              => (pc = "raised" /\ err = "IndexError")
        /\ \A i \in DOMAIN visits :
              visits[i] # <<>> /\ ~Dangles(Edges, visits[i][1], Len(Edges))
        /\ \A i \in DOMAIN pngs : ~Dangles(Edges, i, Len(Edges))
        /\ pass = 1 => Len(fig) = Len(visits)
        /\ Range(stack) \subseteq Indices(Edges)
\* IndexError reached the caller after the invocation had visited two edges
C6_Witness ==
    /\ pc = "raised" /\ err = "IndexError"
    /\ Len(stack) >= 2
    /\ cur \notin Indices(Edges)

\* C7: streaks.txt holds the header and then one line per edge of
\* self.streaks, in list order, with the ten fields in the stated order.
C7_OneLinePerEdge ==
    (streaks_txt # None /\ streaks # None) =>
        LET t == Val(streaks_txt) IN
        /\ Len(t.header) = 10
        /\ Len(t.lines) = Len(Edges)
        /\ \A k \in DOMAIN Edges :
              /\ Len(t.lines[k]) = 10
              /\ t.lines[k][1] = Edges[k].index
              /\ t.lines[k][2] = Edges[k].x_center
              /\ t.lines[k][3] = Edges[k].y_center
              /\ t.lines[k][4] = Edges[k].area
              /\ t.lines[k][5] = Edges[k].perimeter
              /\ t.lines[k][6] = Edges[k].shape_factor
              /\ t.lines[k][7] = Edges[k].radius_deviation
              /\ t.lines[k][8] = Edges[k].slope_angle
              /\ t.lines[k][9] = Edges[k].intercept
              /\ t.lines[k][10] = Edges[k].connectivity
\* the report of a detected list of two linked edges
C7_Witness ==
    /\ Detected /\ streaks_txt # None
    /\ Len(Val(streaks_txt).lines) = 2
    /\ Val(streaks_txt).lines[2][10] # NoLink

\* C8: the stages of detect() run in the order background removal, contour
\* extraction, quantify, filter, link, each on the complete output of the
\* one before; raw_edges is the quantifier's whole output, streaks is set
\* only after the link stage, and both are None until detect() has run.
C8_StagesInOrder ==
    /\ log = SubSeq(StageOrder, 1, Len(log))
    /\ image = None => (raw_edges = None /\ streaks = None /\ log = <<>>)
    /\ Len(log) < 3 => raw_edges = None
    /\ Len(log) \in 1..4 => streaks = None
    /\ raw_edges # None => raw_edges = Some(Quantify(Val(contours)))
    /\ Len(log) = 3 => edge = Some(Quantify(Val(contours)))
    /\ Len(log) = 4 => edge = Some(FilterEdges(Quantify(Val(contours))))
    /\ Len(log) = 5 =>
          /\ [k \in DOMAIN Val(edge) |-> Val(edge)[k].index]
               = [k \in DOMAIN FilterEdges(Quantify(Val(contours))) |->
                     FilterEdges(Quantify(Val(contours)))[k].index]
          /\ raw_edges # None
    /\ (streaks # None /\ log # <<>>) => (Len(log) = 5 /\ Val(edge) \in
          {[k \in DOMAIN Edges |-> [Edges[k] EXCEPT !.box_plotted = b[k]]] :
              b \in [DOMAIN Edges -> BOOLEAN]})
\* detect() has run and the filter dropped some, not all, of the raw edges
C8_Witness ==
    /\ Detected /\ raw_edges # None
    /\ Len(Val(raw_edges)) > Len(Edges)
    /\ Len(Edges) > 0

\* C9: saving all.png again for the same detected list gives the same
\* boxes (a second call of plot_figures repeats the first).
C9_SameOverallFigure ==
    [][(Detected /\ all_png # None) => all_png' = all_png]_vars

\* C10: the clamped box of a chain satisfies x_min <= x_max and
\* y_min <= y_max and contains the bounding box of every edge of the chain.
C10_BoxContainsChain ==
    (Detected /\ Returned /\ box # None) =>
        LET b == Val(box) IN
        /\ b.x_min <= b.x_max
        /\ b.y_min <= b.y_max
        /\ \A k \in DOMAIN xs : b.x_min <= xs[k][1] /\ xs[k][2] <= b.x_max
        /\ \A k \in DOMAIN ys : b.y_min <= ys[k][1] /\ ys[k][2] <= b.y_max
====
